---- MODULE Spec2Model ----
(***************************************************************************)
(* Model of src/main/batch_process_trip.py: the TaxiBatch batch job.       *)
(*                                                                         *)
(* The driver (__main__) constructs TaxiBatch (properties, SparkContext,   *)
(* zone index), calls process_batch_data (which only declares the lazy RDD *)
(* lineage and broadcasts the zone index) and save_batch_trip_stats (whose *)
(* toDF/save runs the lineage and appends the rows to the Cassandra        *)
(* table).  The RDD lineage is modelled step by step: the per-record map,  *)
(* the filter, reduceByKey folded as an arbitrary binary tree, and         *)
(* aggregateByKey folded per partition with seqOp and merged with combOp   *)
(* in an arbitrary order.                                                  *)
(*                                                                         *)
(* The file is Python 2 (print statement at line 114), so "/" on two ints  *)
(* at line 54 is floor division.                                           *)
(***************************************************************************)
EXTENDS Integers, Sequences, FiniteSets, Bags, TLC

VARIABLES run, pc, err, exit_code, reported, input, zone_info, zone_info_bc,
          rows, pairs1, pairs2, accs, data_stats, sink

vars == <<run, pc, err, exit_code, reported, input, zone_info, zone_info_bc,
          rows, pairs1, pairs2, accs, data_stats, sink>>

(* ------------------------------ bounds --------------------------------- *)

\* lines in the raw dataset
MaxRecords == 3
\* partitions the stage-2 aggregation is spread over
NumPartitions == 2
\* invocations of the driver against the same sink
MaxRuns == 2

Partitions == 1..NumPartitions

(* --------------------------- reference data ---------------------------- *)

\* Python None, and the zone dictionary before __init__ has assigned it
None == <<>>
NoZone == <<>>

\* the dictionary util.get_zone_dict returns: location id -> (code, name)
ZoneData ==
    [l \in {"5", "7"} |->
        IF l = "5" THEN <<"B", "Borough Name">> ELSE <<"Q", "Queens">>]

\* calendar facts the normalizer derives from the date part of a timestamp
KnownDates == {"2020-01-01", "2020-01-02", "2020-01-08", "2020-02-05"}
MonthOf(d) == IF d = "2020-02-05" THEN 2 ELSE 1
DayOfWeek(d) == IF d = "2020-01-02" THEN "Thu" ELSE "Wed"

KnownTimes == {"08:05:00", "08:12:00", "08:20:00"}
MinutesSinceMidnight(t) ==
    CASE t = "08:05:00" -> 485
      [] t = "08:12:00" -> 492
      [] t = "08:20:00" -> 500

\* a raw line: the pickup timestamp as its tokens, the pickup location id
\* and the number of comma separated fields
Line(d, t, l) == [ts |-> <<d, " ", t>>, loc |-> l, nf |-> 17]

RawLines ==
    << Line("2020-01-01", "08:05:00", "5"),
       Line("2020-01-08", "08:12:00", "5"),
       Line("2020-01-02", "08:05:00", "5"),
       Line("2020-01-01", "08:20:00", "5"),
       Line("2020-02-05", "08:05:00", "5"),
       Line("2020-01-01", "08:05:00", "7"),
       Line("2020-01-01", "08:05:00", "99"),
       [ts |-> <<"2020-01-01", " ", "08:05:00">>, loc |-> "5", nf |-> 16],
       [ts |-> <<"garbage">>, loc |-> "5", nf |-> 17],
       Line("2020-01-01", "08:12:00", "5") >>

LineIds == 1..Len(RawLines)

\* the datasets: multisets of at most MaxRecords lines, written as
\* non-decreasing sequences of line ids
IsSorted(s) == \A i \in 1..(Len(s) - 1) : s[i] <= s[i + 1]
Datasets ==
    {s \in UNION {[1..n -> LineIds] : n \in 0..MaxRecords} : IsSorted(s)}

(* ---------------------------- pure functions --------------------------- *)

\* str.split(sep): the pieces of s between the occurrences of sep
RECURSIVE Split(_, _)
Split(s, sep) ==
    IF s = <<>> THEN << <<>> >>
    ELSE IF Head(s) = sep THEN << <<>> >> \o Split(Tail(s), sep)
    ELSE LET rest == Split(Tail(s), sep)
         IN  << <<Head(s)>> \o Head(rest) >> \o Tail(rest)

\* util.process_trip_record(row, zone_info): the normalized event
\* (timestamp, time_block, month, day, borough_code, borough_name) or None
process_trip_record(line, zone) ==
    IF line.nf # 17 THEN None
    ELSE IF Len(line.ts) # 3 THEN None
    ELSE IF ~(line.ts[2] = " " /\ line.ts[1] \in KnownDates
                /\ line.ts[3] \in KnownTimes) THEN None
    ELSE IF line.loc \notin DOMAIN zone THEN None
    ELSE << line.ts,
            MinutesSinceMidnight(line.ts[3]) \div 15,
            MonthOf(line.ts[1]),
            DayOfWeek(line.ts[1]),
            zone[line.loc][1],
            zone[line.loc][2] >>

\* the broadcast taken from a dictionary that is not the built one
BroadcastStale(z) == NoZone

\* sc.broadcast(self.zone_info).value
Broadcast(z) == z

\* .filter(lambda row: row != None)
Filter(row) == row # None

\* the key built from the whole timestamp instead of its date
MapToPairWholeTs(row) ==
    << << row[1], row[2], row[3], row[4], row[5], row[6] >>, 1 >>

\* .map(lambda row : ((row[0].split(" ")[0],row[1],...,row[5]),1))
MapToPair(row) ==
    << << Split(row[1], " ")[1], row[2], row[3], row[4], row[5], row[6] >>, 1 >>

\* a reduction that keeps one operand
ReduceFnLeft(x, y) == x

\* .reduceByKey(lambda x,y : x+y)
ReduceFn(x, y) == x + y

\* the new key with the day-of-week index replaced by its neighbour
RekeyNoDay(x) == << << x[1][2], x[1][3], x[1][5], x[1][5], x[1][6] >>, x[2] >>

\* .map(lambda x : ((x[0][1],x[0][2],x[0][3],x[0][4],x[0][5]),x[1]))
Rekey(x) == << << x[1][2], x[1][3], x[1][4], x[1][5], x[1][6] >>, x[2] >>

\* an element combine that does not count the day
SeqOpNoDay(x, y) == << x[1], x[2] + y >>
\* a merge combine that loses the trips of its second operand
CombOpLeftTrips(x, y) == << x[1] + y[1], x[2] >>

\* .aggregateByKey((0,0), seqOp, combOp)
ZeroValue == <<0, 0>>
SeqOp(x, y) == << x[1] + 1, x[2] + y >>
CombOp(x, y) == << x[1] + y[1], x[2] + y[2] >>

\* .map(lambda x : (x[0][0],...,x[0][4],x[1][1]/x[1][0])), int / int
FinalMap(x) ==
    << x[1][1], x[1][2], x[1][3], x[1][4], x[1][5], x[2][2] \div x[2][1] >>

(* ------------------------------ helpers -------------------------------- *)

One(x) == SetToBag({x})

RECURSIVE BagOfImage(_, _)
BagOfImage(f, S) ==
    IF S = {} THEN EmptyBag
    ELSE LET i == CHOOSE j \in S : TRUE
         IN  One(f[i]) (+) BagOfImage(f, S \ {i})

\* every key of the bag of (key, value) pairs occurs once
KeysDistinct(b) ==
    /\ \A a \in BagToSet(b) : CopiesIn(a, b) = 1
    /\ \A a, c \in BagToSet(b) : a[1] = c[1] => a = c

EmptyRows == [i \in {} |-> None]

(* ------------------------------- Init ---------------------------------- *)

Init ==
    /\ run = 1
    /\ pc = "start"
    /\ err = "none"
    /\ exit_code = "running"
    /\ reported = FALSE
    /\ input \in Datasets
    /\ zone_info = NoZone
    /\ zone_info_bc = NoZone
    /\ rows = EmptyRows
    /\ pairs1 = EmptyBag
    /\ pairs2 = EmptyBag
    /\ accs = EmptyBag
    /\ data_stats = EmptyBag
    /\ sink = EmptyBag

(* ------------------------------ driver --------------------------------- *)

\* __main__: len(sys.argv) != 3
BadArguments ==
    /\ pc = "start"
    /\ pc' = "exited"
    /\ err' = "usage"
    /\ exit_code' = "255"
    /\ UNCHANGED <<run, reported, input, zone_info, zone_info_bc, rows,
                   pairs1, pairs2, accs, data_stats, sink>>

\* TaxiBatch.__init__ returns: zone_info holds the zone dictionary
Construct ==
    /\ pc = "start"
    /\ zone_info' = ZoneData
    /\ pc' = "constructed"
    /\ UNCHANGED <<run, err, exit_code, reported, input, zone_info_bc, rows,
                   pairs1, pairs2, accs, data_stats, sink>>

\* the failure of util.get_zone_dict swallowed: the run goes on
ConstructRaisesSwallowed ==
    /\ pc = "start"
    /\ pc' = "constructed"
    /\ err' = "zone_build"
    /\ UNCHANGED <<run, exit_code, reported, input, zone_info, zone_info_bc,
                   rows, pairs1, pairs2, accs, data_stats, sink>>

\* util.get_zone_dict raises inside __init__, outside the try of __main__:
\* the interpreter prints the traceback and exits with status 1
ConstructRaises ==
    /\ pc = "start"
    /\ pc' = "exited"
    /\ err' = "zone_build"
    /\ exit_code' = "1"
    /\ UNCHANGED <<run, reported, input, zone_info, zone_info_bc, rows,
                   pairs1, pairs2, accs, data_stats, sink>>

\* process_batch_data returns: the zone index is broadcast and the lineage
\* of data_stats is declared; nothing is computed yet
ProcessBatchData ==
    /\ pc = "constructed"
    /\ zone_info_bc' = Broadcast(zone_info)
    /\ pc' = "processed"
    /\ UNCHANGED <<run, err, exit_code, reported, input, zone_info, rows,
                   pairs1, pairs2, accs, data_stats, sink>>

\* process_batch_data raises: except clause, sys.exit(-1)
ProcessBatchDataRaises ==
    /\ pc = "constructed"
    /\ pc' = "exited"
    /\ err' = "process"
    /\ exit_code' = "255"
    /\ UNCHANGED <<run, reported, input, zone_info, zone_info_bc, rows,
                   pairs1, pairs2, accs, data_stats, sink>>

\* save_batch_trip_stats raises before the job has produced anything
\* (SparkSession, toDF): except clause, sys.exit(-1)
SaveRaises ==
    /\ pc = "processed"
    /\ rows = EmptyRows
    /\ pc' = "exited"
    /\ err' = "save"
    /\ exit_code' = "255"
    /\ UNCHANGED <<run, reported, input, zone_info, zone_info_bc, rows,
                   pairs1, pairs2, accs, data_stats, sink>>

(* --------------------- the job run by toDF / save ---------------------- *)

\* one task applies the first map to one record of the text file
MapRecord ==
    /\ pc = "processed"
    /\ \E i \in (1..Len(input)) \ DOMAIN rows :
          rows' = [j \in DOMAIN rows \cup {i} |->
                     IF j = i
                     THEN process_trip_record(RawLines[input[i]], zone_info_bc)
                     ELSE rows[j]]
    /\ UNCHANGED <<run, pc, err, exit_code, reported, input, zone_info,
                   zone_info_bc, pairs1, pairs2, accs, data_stats, sink>>

\* the filter and the second map; row[0] of a None that passed the filter
\* is a TypeError, which fails the job
FilterAndPair ==
    /\ pc = "processed"
    /\ DOMAIN rows = 1..Len(input)
    /\ LET kept == {i \in DOMAIN rows : Filter(rows[i])}
       IN  IF \E i \in kept : rows[i] = None
           THEN /\ pc' = "exited"
                /\ err' = "TypeError"
                /\ exit_code' = "255"
                /\ UNCHANGED pairs1
           ELSE /\ pc' = "reduce"
                /\ pairs1' = BagOfImage([i \in kept |-> MapToPair(rows[i])], kept)
                /\ UNCHANGED <<err, exit_code>>
    /\ UNCHANGED <<run, reported, input, zone_info, zone_info_bc, rows,
                   pairs2, accs, data_stats, sink>>

\* reduceByKey: two values of one key, whether two elements of a partition
\* or the partial sums of two partitions, are replaced by lambda(x, y)
ReduceByKeyStep ==
    /\ pc = "reduce"
    /\ \E a, b \in BagToSet(pairs1) :
          /\ a[1] = b[1]
          /\ a # b \/ CopiesIn(a, pairs1) >= 2
          /\ pairs1' = ((pairs1 (-) One(a)) (-) One(b))
                          (+) One(<<a[1], ReduceFn(a[2], b[2])>>)
    /\ UNCHANGED <<run, pc, err, exit_code, reported, input, zone_info,
                   zone_info_bc, rows, pairs2, accs, data_stats, sink>>

\* end of stage 1: the daily buckets are re-keyed without the date
RekeyDaily ==
    /\ pc = "reduce"
    /\ KeysDistinct(pairs1)
    /\ pairs2' = BagOfImage([x \in BagToSet(pairs1) |-> Rekey(x)],
                            BagToSet(pairs1))
    /\ pc' = "aggregate"
    /\ UNCHANGED <<run, err, exit_code, reported, input, zone_info,
                   zone_info_bc, rows, pairs1, accs, data_stats, sink>>

\* aggregateByKey, map side: a value that sits in partition p is folded into
\* the accumulator of its key in p, which starts from the zero value
SeqOpStep ==
    /\ pc = "aggregate"
    /\ \E x \in BagToSet(pairs2), p \in Partitions :
          LET mine == {a \in BagToSet(accs) : a[1] = x[1] /\ a[2] = p}
          IN  /\ pairs2' = pairs2 (-) One(x)
              /\ IF mine = {}
                 THEN accs' = accs (+) One(<<x[1], p, SeqOp(ZeroValue, x[2])>>)
                 ELSE LET a == CHOOSE c \in mine : TRUE
                      IN  accs' = (accs (-) One(a))
                                     (+) One(<<x[1], p, SeqOp(a[3], x[2])>>)
    /\ UNCHANGED <<run, pc, err, exit_code, reported, input, zone_info,
                   zone_info_bc, rows, pairs1, data_stats, sink>>

\* aggregateByKey, reduce side: two accumulators of one key are merged
CombOpStep ==
    /\ pc = "aggregate"
    /\ pairs2 = EmptyBag
    /\ \E a, b \in BagToSet(accs) :
          /\ a[1] = b[1]
          /\ a # b \/ CopiesIn(a, accs) >= 2
          /\ accs' = ((accs (-) One(a)) (-) One(b))
                        (+) One(<<a[1], 0, CombOp(a[3], b[3])>>)
    /\ UNCHANGED <<run, pc, err, exit_code, reported, input, zone_info,
                   zone_info_bc, rows, pairs1, pairs2, data_stats, sink>>

\* the last map; a zero day count is a ZeroDivisionError, which fails the job
FinalMapStep ==
    /\ pc = "aggregate"
    /\ pairs2 = EmptyBag
    /\ KeysDistinct(accs)
    /\ IF \E a \in BagToSet(accs) : a[3][1] = 0
       THEN /\ pc' = "exited"
            /\ err' = "ZeroDivisionError"
            /\ exit_code' = "255"
            /\ UNCHANGED data_stats
       ELSE /\ pc' = "mapped"
            /\ data_stats' =
                 BagOfImage([a \in BagToSet(accs) |-> FinalMap(<<a[1], a[3]>>)],
                            BagToSet(accs))
            /\ UNCHANGED <<err, exit_code>>
    /\ UNCHANGED <<run, reported, input, zone_info, zone_info_bc, rows,
                   pairs1, pairs2, accs, sink>>

\* mode("overwrite"): the table holds the rows of the last run only
SaveModeOverwrite(table, df) == df

\* write.format(...).mode("append").save()
SaveModeAppend(table, df) == table (+) df

\* save_batch_trip_stats: toDF infers the column types from the first row
\* and raises ValueError on an empty RDD (except clause, sys.exit(-1));
\* otherwise the rows are appended to the table, "Saved data successfully"
\* is printed and the interpreter exits with status 0
SaveBatchTripStats ==
    /\ pc = "mapped"
    /\ pc' = "exited"
    /\ IF data_stats = EmptyBag
       THEN /\ err' = "ValueError"
            /\ exit_code' = "255"
            /\ UNCHANGED <<sink, reported>>
       ELSE /\ sink' = SaveModeAppend(sink, data_stats)
            /\ reported' = TRUE
            /\ exit_code' = "0"
            /\ UNCHANGED err
    /\ UNCHANGED <<run, input, zone_info, zone_info_bc, rows,
                   pairs1, pairs2, accs, data_stats>>

\* the driver is invoked again on the same dataset and the same table
NewRun ==
    /\ pc = "exited"
    /\ run < MaxRuns
    /\ run' = run + 1
    /\ input' = input
    /\ pc' = "start"
    /\ err' = "none"
    /\ exit_code' = "running"
    /\ reported' = FALSE
    /\ zone_info' = NoZone
    /\ zone_info_bc' = NoZone
    /\ rows' = EmptyRows
    /\ pairs1' = EmptyBag
    /\ pairs2' = EmptyBag
    /\ accs' = EmptyBag
    /\ data_stats' = EmptyBag
    /\ UNCHANGED sink

Next ==
    \/ BadArguments
    \/ Construct
    \/ ConstructRaises
    \/ ProcessBatchData
    \/ ProcessBatchDataRaises
    \/ SaveRaises
    \/ MapRecord
    \/ FilterAndPair
    \/ ReduceByKeyStep
    \/ RekeyDaily
    \/ SeqOpStep
    \/ CombOpStep
    \/ FinalMapStep
    \/ SaveBatchTripStats
    \/ NewRun

Spec == Init /\ [][Next]_vars

(* ------------------ what the properties are stated over ---------------- *)

\* the job has passed the stage-1 barrier / the last map
Stage1Done == pc \in {"aggregate", "mapped"} \/ reported \/ err = "ValueError"
Stage2Done == pc = "mapped" \/ reported \/ err = "ValueError"

\* records the normalizer returned an event for, of those normalized so far
NonNone == {i \in DOMAIN rows : rows[i] # None}
Discarded == {i \in DOMAIN rows : rows[i] = None}

\* the part of a timestamp before its first space
FirstSpace(ts) ==
    IF \E i \in 1..Len(ts) : ts[i] = " "
    THEN CHOOSE i \in 1..Len(ts) :
            ts[i] = " " /\ \A j \in 1..(i - 1) : ts[j] # " "
    ELSE Len(ts) + 1
DatePart(ts) == SubSeq(ts, 1, FirstSpace(ts) - 1)

DailyKeyOf(e) == << DatePart(e[1]), e[2], e[3], e[4], e[5], e[6] >>
StatKeyOf(e) == << e[2], e[3], e[4], e[5], e[6] >>
DropDate(k) == << k[2], k[3], k[4], k[5], k[6] >>
RowKey(r) == << r[1], r[2], r[3], r[4], r[5] >>

RECURSIVE SumOver(_, _)
SumOver(f, S) ==
    IF S = {} THEN 0
    ELSE LET x == CHOOSE y \in S : TRUE IN f[x] + SumOver(f, S \ {x})

\* sum of the values of a bag of (key, value) pairs
SumValues(b) ==
    SumOver([a \in BagToSet(b) |-> a[2] * CopiesIn(a, b)], BagToSet(b))

\* the daily buckets of a statistics key, their number and their trips
BucketsOf(k) == {p \in BagToSet(pairs1) : DropDate(p[1]) = k}
DaysOf(k) == Cardinality(BucketsOf(k))
TripsOf(k) == SumOver([p \in BucketsOf(k) |-> p[2]], BucketsOf(k))

\* the whole lineage run over a sequence of lines as one partition: the
\* records in order, the daily sums folded left to right, one accumulator
\* per key folded with the element combine only
RECURSIVE FoldDaily(_, _)
FoldDaily(ids, m) ==
    IF ids = <<>> THEN m
    ELSE LET row == process_trip_record(RawLines[Head(ids)], ZoneData)
         IN  IF ~Filter(row) THEN FoldDaily(Tail(ids), m)
             ELSE LET p == MapToPair(row)
                  IN  FoldDaily(Tail(ids),
                        [k \in DOMAIN m \cup {p[1]} |->
                           IF k = p[1]
                           THEN IF k \in DOMAIN m THEN ReduceFn(m[k], p[2])
                                ELSE p[2]
                           ELSE m[k]])

RECURSIVE FoldStats(_, _, _)
FoldStats(S, daily, m) ==
    IF S = {} THEN m
    ELSE LET k6 == CHOOSE k \in S : TRUE
             p == Rekey(<<k6, daily[k6]>>)
         IN  FoldStats(S \ {k6}, daily,
               [k \in DOMAIN m \cup {p[1]} |->
                  IF k = p[1]
                  THEN SeqOp(IF k \in DOMAIN m THEN m[k] ELSE ZeroValue, p[2])
                  ELSE m[k]])

SinglePartition(ids) ==
    LET daily == FoldDaily(ids, <<>>)
        stats == FoldStats(DOMAIN daily, daily, <<>>)
    IN  {FinalMap(<<k, stats[k]>>) : k \in DOMAIN stats}

\* the dataset without the lines the normalizer discards
IsKept(l) == process_trip_record(RawLines[l], ZoneData) # None
Cleaned(ids) == SelectSeq(ids, IsKept)

IsSet(b) == \A x \in BagToSet(b) : CopiesIn(x, b) = 1

(* ------------------------------ properties ----------------------------- *)

\* C1: the mean of every output row times the number d of dates of its key
\* equals the sum of the daily counts of the key (the mean is exact, with
\* no truncation).
C1_MeanExact ==
    Stage2Done =>
        \A r \in BagToSet(data_stats) :
            r[6] * DaysOf(RowKey(r)) = TripsOf(RowKey(r))

\* C2: whatever the partitions and the order of the folds and merges, the
\* output rows are those of the whole dataset processed as one partition.
C2_OrderIndependent ==
    Stage2Done =>
        /\ IsSet(data_stats)
        /\ BagToSet(data_stats) = SinglePartition(input)

C2_Witness ==
    /\ pc = "mapped"
    /\ \E a \in BagToSet(accs) : a[2] = 0 /\ a[3][1] >= 2 /\ a[3][2] >= 3

\* C3: conservation: the daily counts add up to the number of records the
\* normalizer returned an event for, during and after the reduction, and at
\* the end of stage 1 every such record has exactly one daily bucket, which
\* counts exactly the records with its key.
C3_Conservation ==
    /\ (pc = "reduce" \/ Stage1Done) =>
          SumValues(pairs1) = Cardinality(NonNone)
    /\ Stage1Done =>
          \A i \in NonNone :
             LET mine == {p \in BagToSet(pairs1) : p[1] = DailyKeyOf(rows[i])}
             IN  /\ Cardinality(mine) = 1
                 /\ \A p \in mine :
                       /\ CopiesIn(p, pairs1) = 1
                       /\ p[2] = Cardinality({j \in NonNone :
                                   DailyKeyOf(rows[j]) = DailyKeyOf(rows[i])})

C3_Witness ==
    /\ pc = "aggregate"
    /\ Discarded # {}
    /\ \E p \in BagToSet(pairs1) : p[2] = 2

\* C4: for a dataset with discarded records the batch runs to completion
\* (no failure arises inside the job or the save) and the output rows are
\* those of the dataset without the discarded records.
C4_FailureIsolation ==
    (Discarded # {} /\ DOMAIN rows = 1..Len(input)) =>
        /\ err \notin {"TypeError", "ZeroDivisionError", "ValueError"}
        /\ Stage2Done => BagToSet(data_stats) = SinglePartition(Cleaned(input))

\* C5: every accumulator of stage 2, in a partition or merged, has counted
\* at least one day, so the division of the last map never divides by zero.
C5_DaysSeenPositive ==
    /\ \A a \in BagToSet(accs) : a[3][1] >= 1
    /\ err # "ZeroDivisionError"

C5_Witness ==
    /\ pc = "mapped"
    /\ \E a, b \in BagToSet(accs) : a[2] = 0 /\ b[2] # 0

\* C6: the output has exactly one row per statistics key among the daily
\* buckets, and the accumulator of a key has merged exactly the daily buckets
\* that agree with it on the five components left when the date is dropped.
C6_StatKeying ==
    Stage2Done =>
        /\ IsSet(data_stats)
        /\ {RowKey(r) : r \in BagToSet(data_stats)}
              = {DropDate(p[1]) : p \in BagToSet(pairs1)}
        /\ BagCardinality(data_stats)
              = Cardinality({DropDate(p[1]) : p \in BagToSet(pairs1)})
        /\ \A p \in BagToSet(pairs1) :
              \E a \in BagToSet(accs) :
                 /\ a[1] = DropDate(p[1])
                 /\ a[3][1] = DaysOf(a[1])
                 /\ a[3][2] = TripsOf(a[1])

C6_Witness ==
    /\ pc = "mapped"
    /\ BagCardinality(pairs1) = 3
    /\ BagCardinality(data_stats) = 2
    /\ \E r, q \in BagToSet(data_stats) : r[3] # q[3]

\* C7: the daily reduction has exactly one entry per key (date, time_block,
\* month, day_of_week, borough_code, borough_name) of the non-discarded
\* events, the date being the timestamp up to its first space, and the
\* days_seen of a statistics key is the number of distinct dates of its
\* events.
C7_DailyKeying ==
    /\ Stage1Done =>
          /\ KeysDistinct(pairs1)
          /\ {p[1] : p \in BagToSet(pairs1)}
                = {DailyKeyOf(rows[i]) : i \in NonNone}
    /\ Stage2Done =>
          \A a \in BagToSet(accs) :
             a[3][1] = Cardinality({DatePart(rows[i][1]) :
                          i \in {j \in NonNone : StatKeyOf(rows[j]) = a[1]}})

C7_Witness ==
    /\ pc = "mapped"
    /\ \E i, j \in NonNone :
          /\ rows[i][1] # rows[j][1]
          /\ DailyKeyOf(rows[i]) = DailyKeyOf(rows[j])
    /\ \E a \in BagToSet(accs) : a[3][1] = 2

\* C8: once a record has been normalized the zone index is the built one,
\* every normalized record was computed from it, and no step taken after
\* the construction (process_batch_data, save_batch_trip_stats, the job)
\* changes it.
ZoneIndexInUse ==
    rows # EmptyRows =>
        /\ zone_info = ZoneData
        /\ zone_info_bc = zone_info
        /\ \A i \in DOMAIN rows :
              rows[i] = process_trip_record(RawLines[input[i]], zone_info)

ZoneIndexKept ==
    pc \in {"constructed", "processed", "reduce", "aggregate", "mapped"}
        => zone_info' = zone_info

C8_ZoneIndexReadOnly == []ZoneIndexInUse /\ [][ZoneIndexKept]_vars

C8_Witness ==
    /\ pc = "mapped"
    /\ Cardinality(DOMAIN rows) = 3
    /\ NonNone # {} /\ Discarded # {}

\* C9: when the zone index cannot be built the run is over: no record is
\* normalized, nothing is broadcast or computed, the sink keeps its rows,
\* no success is reported and the exit status is not 0.
AbortedOnZoneBuild ==
    err = "zone_build" =>
        /\ pc = "exited"
        /\ rows = EmptyRows
        /\ zone_info_bc = NoZone
        /\ pairs1 = EmptyBag /\ pairs2 = EmptyBag /\ accs = EmptyBag
        /\ data_stats = EmptyBag
        /\ ~reported
        /\ exit_code = "1"

SinkKeptOnZoneBuild ==
    (err = "zone_build" \/ err' = "zone_build") => sink' = sink

C9_ZoneBuildFailureAborts ==
    []AbortedOnZoneBuild /\ [][SinkKeptOnZoneBuild]_vars

C9_Witness ==
    /\ err = "zone_build"
    /\ run = 2
    /\ sink # EmptyBag

\* C10: the sink only grows; it changes only in the save step of a run
\* whose process_batch_data has returned, and then by exactly the rows of
\* that run; a run whose process_batch_data raises leaves the sink as it
\* is, reports nothing and exits with status 255.
SinkStep ==
    /\ sink \sqsubseteq sink'
    /\ (sink' # sink) =>
          /\ pc = "mapped" /\ err = "none"
          /\ zone_info_bc = ZoneData
          /\ sink' = sink (+) data_stats
    /\ (reported' /\ ~reported) => sink' = sink (+) data_stats
    /\ (err = "process" \/ err' = "process") => sink' = sink

FailedInProcess ==
    err = "process" => pc = "exited" /\ exit_code = "255" /\ ~reported

====
